---- MODULE Spec2Model ----
(***************************************************************************)
(* Model of the ath3k firmware loader (usr.bin/ath3k): main(),             *)
(* ath3k_init_ar3012(), ath3k_init_firmware() and the protocol functions   *)
(* of ath3k_hw.c.  One action per USB transfer or file read, each action   *)
(* carrying the code that follows the call up to the next call.            *)
(***************************************************************************)
EXTENDS Integers, Sequences, FiniteSets, TLC

VARIABLES
    pc,         \* position of the (single) thread of control
    run,        \* number of the current invocation of the tool
    is_3012,    \* main(): -m ar3012 given
    devState,   \* the device's state byte
    devVer,     \* the device's GETVERSION payload, four 4-byte words
    fs,         \* the firmware directory: file name -> file
    fw_state,   \* local fw_state of the running stage
    fw_ver,     \* local fw_ver of the running stage
    pt_ver,     \* local pt_ver of ath3k_load_patch
    fw,         \* the blob being uploaded (struct ath3k_firmware)
    count,      \* ath3k_load_fwfile: bytes left
    sent,       \* ath3k_load_fwfile: bytes submitted so far
    rets,       \* return values of the functions that have returned
    log,        \* every transfer and file open of this invocation, in order
    hdl,        \* the libusb device handle of main()
    heap,       \* the blob buffer of each stage: allocated, times freed
    prev        \* summary of the invocations that ended before this one

vars == <<pc, run, is_3012, devState, devVer, fs, fw_state, fw_ver, pt_ver,
          fw, count, sent, rets, log, hdl, heap, prev>>

----------------------------------------------------------------------------
(* Bounds of the model *)

\* blobs carry up to this many full bulk chunks
MaxChunks == 2
\* the tool is invoked up to this many times on the same device
MaxRuns == 2

----------------------------------------------------------------------------
(* Constants of ath3k_hw.h *)

FW_HDR_SIZE == 20
BULK_SIZE == 4096
ATH3K_MODE_MASK == 63
ATH3K_NORMAL_MODE == 14
ATH3K_PATCH_UPDATE == 128
ATH3K_XTAL_FREQ_19P2 == 0
ATH3K_XTAL_FREQ_26M == 1
ATH3K_XTAL_FREQ_40M == 2
\* sizeof(struct ath3k_version)
VERSION_SIZE == 16

\* the least length ath3k_fw_read() takes
FW_MIN_LEN == 8

XMIN(x, y) == IF x < y THEN x ELSE y

RECURSIVE BitAndN(_, _, _)
BitAndN(a, b, n) ==
    IF n = 0 THEN 0
    ELSE (IF a % 2 = 1 /\ b % 2 = 1 THEN 1 ELSE 0)
         + 2 * BitAndN(a \div 2, b \div 2, n - 1)

\* a & b on unsigned char
BitAnd(a, b) == BitAndN(a, b, 8)

\* a 32-bit word read from four bytes of memory on the (little-endian) host
LE32(b) == b[1] + 256 * b[2] + 65536 * b[3] + 16777216 * b[4]

\* the bytes of a 32-bit word in device byte order
Bytes32(v) == << v % 256, (v \div 256) % 256, (v \div 65536) % 256,
                 (v \div 16777216) % 256 >>

----------------------------------------------------------------------------
(* The environment: device, firmware directory, outcomes of transfers *)

ROM_A == 768
ROM_B == ROM_A + 1
DEV_BUILD == 5

StateBytes == {0, ATH3K_PATCH_UPDATE, ATH3K_NORMAL_MODE,
               ATH3K_PATCH_UPDATE + ATH3K_NORMAL_MODE}

RefClocks == {ATH3K_XTAL_FREQ_19P2, ATH3K_XTAL_FREQ_26M, ATH3K_XTAL_FREQ_40M, 7}

Version(rom, build, ram, clk) ==
    [rom_version |-> rom, build_version |-> build,
     ram_version |-> ram, ref_clock |-> clk]

\* what an uninitialised or partly written struct ath3k_version may hold
GarbageVersions ==
    { Version(ROM_A, DEV_BUILD, 0, ATH3K_XTAL_FREQ_26M),
      Version(ROM_A, DEV_BUILD + 1, 0, 7),
      Version(ROM_B, DEV_BUILD, 0, 7) }

\* what an uninitialised unsigned char may hold
GarbageStates == {0, ATH3K_PATCH_UPDATE + ATH3K_NORMAL_MODE}

\* the words an out-of-bounds trailer read may yield
GarbageWords == {ROM_A, DEV_BUILD + 1}

\* the file names are sequences of the pieces snprintf() puts together
NoName == << >>

\* the firmware directory given on the command line
FW_PATH == "fw_path"

\* the clock number in the name of the syscfg file made for a clock code
RampsClock(code) ==
    CASE code = ATH3K_XTAL_FREQ_19P2 -> 19
      [] code = ATH3K_XTAL_FREQ_26M -> 26
      [] code = ATH3K_XTAL_FREQ_40M -> 40
      [] OTHER -> 0

File(len, tail) == [len |-> len, tail |-> tail]

Trailer(rom, build) == Bytes32(rom) \o Bytes32(build)

\* blob lengths around the header size and around the chunk boundaries
BlobLens ==
    {1, FW_MIN_LEN, FW_HDR_SIZE - 1, FW_HDR_SIZE, FW_HDR_SIZE + 1}
    \cup { FW_HDR_SIZE + k * BULK_SIZE + d : k \in 1..MaxChunks, d \in {-1, 0, 1} }

PatchFiles ==
    { File(4, <<0, 3, 0, 0>>) }
    \cup { File(8, Trailer(r, b)) :
             r \in {ROM_A, ROM_B},
             b \in {DEV_BUILD - 1, DEV_BUILD, DEV_BUILD + 1} }
    \cup { File(FW_HDR_SIZE + BULK_SIZE + 9, Trailer(ROM_A, DEV_BUILD + 1)) }

\* a syscfg file carries no trailer: its last bytes are whatever they are
SyscfgFiles ==
    { File(12, Trailer(ROM_B, 0)),
      File(FW_HDR_SIZE + BULK_SIZE + 5, << >>) }

LegacyFiles == { File(l, << >>) : l \in BlobLens }

\* a directory holding the given files; NoFile leaves a name out
NoFile == File(0, << >>)
Dir(names, files) ==
    [ n \in { names[i] : i \in { j \in 1..Len(names) : files[j] # NoFile } } |->
        files[CHOOSE i \in 1..Len(names) : names[i] = n] ]

----------------------------------------------------------------------------
(* The log *)

\* the bulk OUT endpoint of ath3k_load_fwfile(); control transfers use 0
BULK_EP == 2

\* a transfer: request, issuing stage, endpoint, offset and length of the data
\* in the blob, libusb's return value, bytes transferred (bulk), byte left in
\* the caller's buffer (GETSTATE), and the device's state byte at that moment
Xfer(op, stage, off, len, ret, r, val) ==
    [op |-> op, stage |-> stage, ep |-> IF op = "BULK" THEN BULK_EP ELSE 0,
     off |-> off, len |-> len, ret |-> ret, r |-> r, val |-> val,
     dev |-> devState, name |-> NoName]

\* a file read: issuing stage, file name, ath3k_fw_read()'s return value
Open(stage, name, ret) ==
    [op |-> "OPEN", stage |-> stage, ep |-> 0, off |-> 0, len |-> 0,
     ret |-> ret, r |-> 0, val |-> 0, dev |-> devState, name |-> name]

Ops(l, op) == { i \in 1..Len(l) : l[i].op = op }
StageOps(l, stage, op) == { i \in Ops(l, op) : l[i].stage = stage }

\* the transfer or read did what was asked of it
Succeeded(e) ==
    CASE e.op = "GETSTATE" -> e.ret = 1
      [] e.op = "GETVERSION" -> e.ret = VERSION_SIZE
      [] e.op = "DNLOAD" -> e.ret = e.len
      [] e.op = "BULK" -> e.ret = 0 /\ e.r = e.len
      [] e.op = "OPEN" -> e.ret > 0
      [] OTHER -> e.ret = 0

Clean(l) == \A i \in 1..Len(l) : Succeeded(l[i])

----------------------------------------------------------------------------
(* ath3k_hw.c: the functions *)

\* ath3k_get_state(): 0 on a transport error, else whether one byte came
GetStateRet(ret) == IF ret < 0 THEN 0 ELSE IF ret = 1 THEN 1 ELSE 0

\* ath3k_get_version(): 0 on a transport error, else whether all of it came
GetVersionRet(ret) == IF ret < 0 THEN 0 ELSE IF ret = VERSION_SIZE THEN 1 ELSE 0

\* the libusb return values of the two queries the model distinguishes
StateRets == {-1, 0, 1}
VersionRets == {-1, 8, VERSION_SIZE}

\* struct ath3k_version as the host reads it out of the payload
DecodeVersion(words) ==
    Version(LE32(words[1]), LE32(words[2]), LE32(words[3]), LE32(words[4]))

\* ath3k_load_fwfile(): size of the DNLOAD control transfer
HeaderSize(cnt) == XMIN(cnt, FW_HDR_SIZE)

\* ChunkSize of half a chunk
ChunkSizeHalf(cnt) == XMIN(cnt, BULK_SIZE \div 2)

\* ChunkSize one byte short of the chunk size
ChunkSizeShort(cnt) == XMIN(cnt, BULK_SIZE - 1)

\* ath3k_load_fwfile(): size of the next bulk transfer
ChunkSize(cnt) == XMIN(cnt, BULK_SIZE)

\* CtrlFailed without the test of the byte count
CtrlFailedErrOnly(ret, size) == ret < 0

\* ath3k_load_fwfile(): the control transfer did not take the header
CtrlFailed(ret, size) == ret # size

\* BulkFailed without the test of the byte count
BulkFailedErrOnly(ret, r, size) == ret < 0

\* ath3k_load_fwfile(): the bulk transfer did not take the chunk
BulkFailed(ret, r, size) == ret < 0 \/ r # size

\* ath3k_load_patch(): the error checks on the two queries
PatchStateFailed(ret) == ret < 0
PatchVersionFailed(ret) == ret < 0

\* PatchAlready testing the mode bits instead of the flag
PatchAlreadyMode(st) == BitAnd(st, ATH3K_MODE_MASK) # 0

\* PatchAlready without the test
PatchAlreadyNever(st) == FALSE

\* ath3k_load_patch(): the patch is resident
PatchAlready(st) == BitAnd(st, ATH3K_PATCH_UPDATE) # 0

\* ath3k_load_patch(): the patch trailer, read through an int pointer
ParseTrailer(tail) ==
    Version(LE32(SubSeq(tail, 1, 4)), LE32(SubSeq(tail, 5, 8)), 0, 0)

\* VersionMismatch letting an equal build through
VersionMismatchStrict(pt, fwv) ==
    \/ pt.rom_version # fwv.rom_version
    \/ pt.build_version < fwv.build_version

\* ath3k_load_patch(): the patch does not fit the device
VersionMismatch(pt, fwv) ==
    \/ pt.rom_version # fwv.rom_version
    \/ pt.build_version <= fwv.build_version

\* ath3k_load_syscfg(): the error checks on the two queries
SyscfgStateFailed(ret) == ret < 0
SyscfgVersionFailed(ret) == ret < 0

\* ClkValue taking an unknown clock for 26 MHz
ClkValueGuess(ref_clock) ==
    CASE ref_clock = ATH3K_XTAL_FREQ_40M -> 40
      [] ref_clock = ATH3K_XTAL_FREQ_19P2 -> 19
      [] OTHER -> 26

\* ath3k_load_syscfg(): the clock number of the file name
ClkValue(ref_clock) ==
    CASE ref_clock = ATH3K_XTAL_FREQ_26M -> 26
      [] ref_clock = ATH3K_XTAL_FREQ_40M -> 40
      [] ref_clock = ATH3K_XTAL_FREQ_19P2 -> 19
      [] OTHER -> 0

\* ath3k_set_normal_mode(): the error check on the query
NormalStateFailed(ret) == ret < 0

\* AlreadyNormal comparing the whole byte
AlreadyNormalNoMask(st) == st = ATH3K_NORMAL_MODE

\* AlreadyNormal without the test
AlreadyNormalNever(st) == FALSE

\* ath3k_set_normal_mode(): the device runs its firmware already
AlreadyNormal(st) == BitAnd(st, ATH3K_MODE_MASK) = ATH3K_NORMAL_MODE

\* ath3k_set_normal_mode(): 0 on a transport error, else whether ret is 0
SetNormalRet(ret) == IF ret < 0 THEN 0 ELSE IF ret = 0 THEN 1 ELSE 0

\* PatchFailed letting -1 through
PatchFailedLoose(ret) == ret < -1

\* ath3k_init_ar3012(): the error checks on the three stages
PatchFailed(ret) == ret < 0
SyscfgFailed(ret) == ret < 0
NormalFailed(ret) == ret < 0


\* ath3k_fw_read(): the length of the file, or 0 when it is missing, cannot
\* be read or is shorter than the least length
FwRead(dir, name, readable) ==
    IF name \in DOMAIN dir /\ readable /\ dir[name].len >= FW_MIN_LEN
    THEN dir[name].len
    ELSE 0

\* the callers' test of ath3k_fw_read()
\* ReadFailed taking an empty read for a blob
ReadFailedNeg(n) == n < 0

\* the stages' test of what ath3k_fw_read() returned
ReadFailed(n) == n <= 0

\* main(): the test of the two initial queries
\* MainQueryFailed with the test the stages make
MainQueryFailedNeg(r) == r < 0

\* main(): the test of what ath3k_get_state() / ath3k_get_version() returned
MainQueryFailed(r) == r = 0

\* ath3k_switch_pid(): 0 on a transport error, else whether ret is 0
SwitchPidRet(ret) == IF ret < 0 THEN 0 ELSE IF ret = 0 THEN 1 ELSE 0

\* InitAfterSwitch were the result of ath3k_switch_pid() looked at
InitAfterSwitchChecked(r) == IF r = 1 THEN 0 ELSE -1

\* ath3k_init_ar3012(): its return value after ath3k_switch_pid() returned r
InitAfterSwitch(r) == 0

\* AfterPatch leaving ath3k_load_syscfg() out
AfterPatchSkip == "N_getstate"

\* ath3k_init_ar3012(): the stage that follows each stage
AfterPatch == "S_getstate"
AfterSyscfg == "N_getstate"
AfterNormal == "switch_pid"

\* ath3k_init_firmware(): its return value after the upload returned r
LegacyRet(r) == 0

\* main(): the exit status after the plan returned r
MainStatus(r) == 0

\* the file names the stages build
HexDigits ==
    << "0", "1", "2", "3", "4", "5", "6", "7",
       "8", "9", "a", "b", "c", "d", "e", "f" >>

\* snprintf() %0wx of a 32-bit value: at least w hexadecimal digits
RECURSIVE Hex(_, _)
Hex(n, w) ==
    IF n = 0 /\ w <= 0
    THEN << >>
    ELSE Hex(n \div 16, w - 1) \o << HexDigits[(n % 16) + 1] >>

\* snprintf() %d of an int that is not negative
RECURSIVE Dec(_)
Dec(n) ==
    IF n < 10
    THEN << HexDigits[n + 1] >>
    ELSE Dec(n \div 10) \o << HexDigits[(n % 10) + 1] >>

PatchName(rom) == << FW_PATH, "/ar3k/AthrBT_0x" >> \o Hex(rom, 8) \o << ".dfu" >>
SyscfgName(rom, clk) ==
    << FW_PATH, "/ar3k/ramps_0x" >> \o Hex(rom, 8) \o << "_" >> \o Dec(clk)
        \o << ".dfu" >>
LegacyName == << FW_PATH, "/ath3k-1.fw" >>

----------------------------------------------------------------------------
(* The device *)

\* the state byte once a complete patch has arrived
WithPatch(st) ==
    IF BitAnd(st, ATH3K_PATCH_UPDATE) # 0 THEN st ELSE st + ATH3K_PATCH_UPDATE

\* the state byte once SET_NORMAL_MODE was accepted
WithNormal(st) ==
    st - BitAnd(st, ATH3K_MODE_MASK) + ATH3K_NORMAL_MODE

\* the state byte after the blob of a stage has arrived in full
AfterUpload(stage, st) == IF stage = "P" THEN WithPatch(st) ELSE st

----------------------------------------------------------------------------
(* Blob buffers *)

BlobStages == {"P", "S", "L"}

NoHeap == [ st \in BlobStages |-> [held |-> FALSE, frees |-> 0] ]

\* ath3k_fw_read() has filled the blob of a stage
FwAlloc(h, st) == [h EXCEPT ![st].held = TRUE]

\* ath3k_fw_free() on the blob of a stage
FwFree(h, st) == [h EXCEPT ![st].held = FALSE, ![st].frees = @ + 1]

\* MismatchFree without the free
MismatchLeak(h) == h

\* ath3k_load_patch(): the free on a version mismatch
MismatchFree(h) == FwFree(h, "P")

\* the free that follows ath3k_load_fwfile() in each stage
LoadFree(h, st) == FwFree(h, st)

----------------------------------------------------------------------------
(* Initial state: the tool has been started on an attached device *)

NoBlob == [stage |-> "", len |-> 0]
NoVersion == Version(0, 0, 0, 0)
NoRets == [ k \in {} |-> 0 ]
NoHandle == [open |-> FALSE, claimed |-> {}]

InitLocals ==
    /\ fw_state = 0
    /\ fw_ver = NoVersion
    /\ pt_ver = NoVersion
    /\ fw = NoBlob
    /\ count = 0
    /\ sent = 0
    /\ rets = NoRets
    /\ log = << >>
    /\ hdl = NoHandle
    /\ heap = NoHeap

Init ==
    /\ pc = "main_open"
    /\ run = 1
    /\ prev = << >>
    /\ devState \in StateBytes
    /\ \E clk \in RefClocks :
         devVer = << Bytes32(ROM_A), Bytes32(DEV_BUILD), Bytes32(0), Bytes32(clk) >>
    /\ \/ /\ is_3012 = FALSE
          /\ \E f \in LegacyFiles \cup {NoFile} : fs = Dir(<<LegacyName>>, <<f>>)
       \/ /\ is_3012 = TRUE
          /\ \E p \in PatchFiles \cup {NoFile}, c \in SyscfgFiles \cup {NoFile} :
               fs = Dir(<< PatchName(ROM_A),
                           SyscfgName(ROM_A, RampsClock(LE32(devVer[4]))) >>,
                        << p, c >>)
    /\ InitLocals

----------------------------------------------------------------------------
(* Returns: what the callers do with a stage's return value *)

\* main(): exit(1) before the plan; the handle is not closed
MainExit1 ==
    /\ pc' = "exit"
    /\ rets' = rets @@ ("main" :> 1)
    /\ UNCHANGED hdl

\* main(): the plan has returned, main() closes the handle and runs off its
\* end
MainEnd(rs) ==
    /\ pc' = "exit"
    /\ rets' = rs @@ ("main" :> MainStatus(rs["init"]))
    /\ hdl' = [hdl EXCEPT !.open = FALSE]

\* ath3k_init_ar3012() returns r to main(), which drops it
InitReturn(rs, r) == MainEnd(rs @@ ("init" :> r))

\* the thread of control stays inside the plan
Goto(where, rs) ==
    /\ pc' = where
    /\ rets' = rs
    /\ UNCHANGED hdl

\* ath3k_load_patch() returns r to ath3k_init_ar3012()
PatchReturn(r) ==
    IF PatchFailed(r)
    THEN InitReturn(rets @@ ("P" :> r), r)
    ELSE Goto(AfterPatch, rets @@ ("P" :> r))

\* ath3k_load_syscfg() returns r to ath3k_init_ar3012()
SyscfgReturn(r) ==
    IF SyscfgFailed(r)
    THEN InitReturn(rets @@ ("S" :> r), r)
    ELSE Goto(AfterSyscfg, rets @@ ("S" :> r))

\* ath3k_set_normal_mode() returns r to ath3k_init_ar3012()
NormalReturn(r) ==
    IF NormalFailed(r)
    THEN InitReturn(rets @@ ("N" :> r), r)
    ELSE Goto(AfterNormal, rets @@ ("N" :> r))

\* ath3k_load_fwfile() returns r to ath3k_init_firmware(), which returns 0
LegacyReturn(r) == MainEnd(rets @@ ("L" :> r) @@ ("init" :> LegacyRet(r)))

\* ath3k_load_fwfile() returns r to the stage that called it; the stage frees
\* the blob and returns r in turn
LoadReturn(stage, r) ==
    /\ fw' = NoBlob
    /\ count' = 0
    /\ sent' = 0
    /\ heap' = LoadFree(heap, stage)
    /\ CASE stage = "P" -> PatchReturn(r)
         [] stage = "S" -> SyscfgReturn(r)
         [] OTHER -> LegacyReturn(r)

\* a stage has read a blob of len bytes and calls ath3k_load_fwfile() on it
LoadCall(stage, len) ==
    /\ fw' = [stage |-> stage, len |-> len]
    /\ count' = len
    /\ sent' = 0
    /\ heap' = FwAlloc(heap, stage)
    /\ Goto("fw_dnload", rets)

----------------------------------------------------------------------------
(* main() *)

\* main(): ath3k_find_device() and libusb_open(); no interface is claimed
MainOpen ==
    /\ pc = "main_open"
    /\ \E ok \in BOOLEAN :
         IF ok
         THEN /\ hdl' = [open |-> TRUE, claimed |-> {}]
              /\ pc' = "main_getstate"
              /\ UNCHANGED rets
         ELSE MainExit1
    /\ UNCHANGED <<run, is_3012, devState, devVer, fs, fw_state, fw_ver,
                   pt_ver, fw, count, sent, log, heap, prev>>

\* main(): the initial ath3k_get_state(); a zero return exits with 1
MainGetState ==
    /\ pc = "main_getstate"
    /\ \E ret \in StateRets :
         /\ log' = Append(log, Xfer("GETSTATE", "main", 0, 1, ret, 0,
                                    IF ret = 1 THEN devState ELSE 0))
         /\ IF MainQueryFailed(GetStateRet(ret))
            THEN MainExit1
            ELSE Goto("main_getversion", rets)
    /\ UNCHANGED <<run, is_3012, devState, devVer, fs, fw_state, fw_ver,
                   pt_ver, fw, count, sent, heap, prev>>

\* main(): the initial ath3k_get_version(), then the choice of the plan
MainGetVersion ==
    /\ pc = "main_getversion"
    /\ \E ret \in VersionRets :
         /\ log' = Append(log, Xfer("GETVERSION", "main", 0, VERSION_SIZE, ret, 0, 0))
         /\ IF MainQueryFailed(GetVersionRet(ret))
            THEN MainExit1
            ELSE Goto(IF is_3012 THEN "P_getstate" ELSE "L_read", rets)
    /\ UNCHANGED <<run, is_3012, devState, devVer, fs, fw_state, fw_ver,
                   pt_ver, fw, count, sent, heap, prev>>

\* ath3k_init_firmware(): read ath3k-1.fw and upload it
LegacyRead ==
    /\ pc = "L_read"
    /\ \E readable \in BOOLEAN :
         LET n == FwRead(fs, LegacyName, readable) IN
         /\ log' = Append(log, Open("L", LegacyName, n))
         /\ IF ReadFailed(n)
            THEN /\ MainEnd(rets @@ ("init" :> -1))
                 /\ UNCHANGED <<fw, count, sent, heap>>
            ELSE LoadCall("L", n)
    /\ UNCHANGED <<run, is_3012, devState, devVer, fs, fw_state, fw_ver,
                   pt_ver, prev>>

----------------------------------------------------------------------------
(* ath3k_load_fwfile() *)

\* the DNLOAD control transfer carrying the head of the blob
FwDnload ==
    /\ pc = "fw_dnload"
    /\ LET size == HeaderSize(count) IN
       \E ret \in {size, size - 1, -1} :
         /\ log' = Append(log, Xfer("DNLOAD", fw.stage, sent, size, ret, 0, 0))
         /\ IF CtrlFailed(ret, size)
            THEN LoadReturn(fw.stage, -1) /\ UNCHANGED devState
            ELSE IF count - size = 0
                 THEN /\ LoadReturn(fw.stage, 0)
                      /\ devState' = AfterUpload(fw.stage, devState)
                 ELSE /\ sent' = sent + size
                      /\ count' = count - size
                      /\ Goto("fw_bulk", rets)
                      /\ UNCHANGED <<fw, heap, devState>>
    /\ UNCHANGED <<run, is_3012, devVer, fs, fw_state, fw_ver, pt_ver, prev>>

\* one round of the loop: a bulk transfer carrying the next chunk
FwBulk ==
    /\ pc = "fw_bulk"
    /\ LET size == ChunkSize(count) IN
       \E res \in { <<0, size>>, <<0, size \div 2>>, <<-1, 0>> } :
         /\ log' = Append(log, Xfer("BULK", fw.stage, sent, size, res[1], res[2], 0))
         /\ IF BulkFailed(res[1], res[2], size)
            THEN LoadReturn(fw.stage, -1) /\ UNCHANGED devState
            ELSE IF count - size = 0
                 THEN /\ LoadReturn(fw.stage, 0)
                      /\ devState' = AfterUpload(fw.stage, devState)
                 ELSE /\ sent' = sent + size
                      /\ count' = count - size
                      /\ Goto("fw_bulk", rets)
                      /\ UNCHANGED <<fw, heap, devState>>
    /\ UNCHANGED <<run, is_3012, devVer, fs, fw_state, fw_ver, pt_ver, prev>>

----------------------------------------------------------------------------
(* ath3k_load_patch() *)

\* ath3k_get_state() and the test of PATCH_UPDATE
PatchGetState ==
    /\ pc = "P_getstate"
    /\ \E ret \in StateRets, g \in GarbageStates :
         LET st == IF ret = 1 THEN devState ELSE g IN
         /\ log' = Append(log, Xfer("GETSTATE", "P", 0, 1, ret, 0, st))
         /\ fw_state' = st
         /\ IF PatchStateFailed(GetStateRet(ret))
            THEN PatchReturn(GetStateRet(ret))
            ELSE IF PatchAlready(st)
                 THEN PatchReturn(0)
                 ELSE Goto("P_getversion", rets)
    /\ UNCHANGED <<run, is_3012, devState, devVer, fs, fw_ver, pt_ver, fw,
                   count, sent, heap, prev>>

\* ath3k_get_version()
PatchGetVersion ==
    /\ pc = "P_getversion"
    /\ \E ret \in VersionRets, g \in GarbageVersions :
         /\ log' = Append(log, Xfer("GETVERSION", "P", 0, VERSION_SIZE, ret, 0, 0))
         /\ fw_ver' = IF ret = VERSION_SIZE THEN DecodeVersion(devVer) ELSE g
         /\ IF PatchVersionFailed(GetVersionRet(ret))
            THEN PatchReturn(GetVersionRet(ret))
            ELSE Goto("P_read", rets)
    /\ UNCHANGED <<run, is_3012, devState, devVer, fs, fw_state, pt_ver, fw,
                   count, sent, heap, prev>>

\* read the patch file, take the versions off its tail, compare, upload
PatchRead ==
    /\ pc = "P_read"
    /\ \E readable \in BOOLEAN, g1 \in GarbageWords, g2 \in GarbageWords :
         LET name == PatchName(fw_ver.rom_version)
             n == FwRead(fs, name, readable)
             pt == IF n >= 8 THEN ParseTrailer(fs[name].tail)
                   ELSE Version(g1, g2, 0, 0)
         IN
         /\ log' = Append(log, Open("P", name, n))
         /\ IF ReadFailed(n)
            THEN /\ PatchReturn(-1)
                 /\ UNCHANGED <<pt_ver, fw, count, sent, heap>>
            ELSE /\ pt_ver' = pt
                 /\ IF VersionMismatch(pt, fw_ver)
                    THEN /\ PatchReturn(-1)
                         /\ heap' = MismatchFree(FwAlloc(heap, "P"))
                         /\ UNCHANGED <<fw, count, sent>>
                    ELSE LoadCall("P", n)
    /\ UNCHANGED <<run, is_3012, devState, devVer, fs, fw_state, fw_ver, prev>>

----------------------------------------------------------------------------
(* ath3k_load_syscfg() *)

\* ath3k_get_state(); the byte read is not looked at
SyscfgGetState ==
    /\ pc = "S_getstate"
    /\ \E ret \in StateRets :
         /\ log' = Append(log, Xfer("GETSTATE", "S", 0, 1, ret, 0,
                                    IF ret = 1 THEN devState ELSE 0))
         /\ IF SyscfgStateFailed(GetStateRet(ret))
            THEN SyscfgReturn(-16)
            ELSE Goto("S_getversion", rets)
    /\ UNCHANGED <<run, is_3012, devState, devVer, fs, fw_state, fw_ver,
                   pt_ver, fw, count, sent, heap, prev>>

\* ath3k_get_version()
SyscfgGetVersion ==
    /\ pc = "S_getversion"
    /\ \E ret \in VersionRets, g \in GarbageVersions :
         /\ fw_ver' = IF ret = VERSION_SIZE THEN DecodeVersion(devVer) ELSE g
         /\ log' = Append(log, Xfer("GETVERSION", "S", 0, VERSION_SIZE, ret, 0,
                                    fw_ver'.ref_clock))
         /\ IF SyscfgVersionFailed(GetVersionRet(ret))
            THEN SyscfgReturn(GetVersionRet(ret))
            ELSE Goto("S_read", rets)
    /\ UNCHANGED <<run, is_3012, devState, devVer, fs, fw_state, pt_ver, fw,
                   count, sent, heap, prev>>

\* name the syscfg file after the clock, read it, upload it
SyscfgRead ==
    /\ pc = "S_read"
    /\ \E readable \in BOOLEAN :
         LET name == SyscfgName(fw_ver.rom_version, ClkValue(fw_ver.ref_clock))
             n == FwRead(fs, name, readable)
         IN
         /\ log' = Append(log, Open("S", name, n))
         /\ IF ReadFailed(n)
            THEN SyscfgReturn(-1) /\ UNCHANGED <<fw, count, sent, heap>>
            ELSE LoadCall("S", n)
    /\ UNCHANGED <<run, is_3012, devState, devVer, fs, fw_state, fw_ver,
                   pt_ver, prev>>

----------------------------------------------------------------------------
(* ath3k_set_normal_mode(), ath3k_switch_pid() *)

\* ath3k_get_state() and the test of the mode
NormalGetState ==
    /\ pc = "N_getstate"
    /\ \E ret \in StateRets, g \in GarbageStates :
         LET st == IF ret = 1 THEN devState ELSE g IN
         /\ log' = Append(log, Xfer("GETSTATE", "N", 0, 1, ret, 0, st))
         /\ fw_state' = st
         /\ IF NormalStateFailed(GetStateRet(ret))
            THEN NormalReturn(GetStateRet(ret))
            ELSE IF AlreadyNormal(st)
                 THEN NormalReturn(0)
                 ELSE Goto("N_setmode", rets)
    /\ UNCHANGED <<run, is_3012, devState, devVer, fs, fw_ver, pt_ver, fw,
                   count, sent, heap, prev>>

\* the SET_NORMAL_MODE control transfer
NormalSetMode ==
    /\ pc = "N_setmode"
    /\ \E ret \in {0, -1} :
         /\ log' = Append(log, Xfer("SET_NORMAL_MODE", "N", 0, 0, ret, 0, 0))
         /\ devState' = IF ret = 0 THEN WithNormal(devState) ELSE devState
         /\ NormalReturn(SetNormalRet(ret))
    /\ UNCHANGED <<run, is_3012, devVer, fs, fw_state, fw_ver, pt_ver, fw,
                   count, sent, heap, prev>>

\* ath3k_switch_pid(), whose result ath3k_init_ar3012() drops
SwitchPid ==
    /\ pc = "switch_pid"
    /\ \E ret \in {0, -1} :
         /\ log' = Append(log, Xfer("SWITCH_VID_PID", "N", 0, 0, ret, 0, 0))
         /\ InitReturn(rets @@ ("SW" :> SwitchPidRet(ret)),
                       InitAfterSwitch(SwitchPidRet(ret)))
    /\ UNCHANGED <<run, is_3012, devState, devVer, fs, fw_state, fw_ver,
                   pt_ver, fw, count, sent, heap, prev>>

----------------------------------------------------------------------------
(* The tool is started again on the same device *)

\* what is kept of an invocation: did the whole AR3012 sequence run, with
\* every transfer and read succeeding
Summary ==
    [full |-> is_3012 /\ Ops(log, "SWITCH_VID_PID") # {} /\ Clean(log)]

Rerun ==
    /\ pc = "exit"
    /\ run < MaxRuns
    /\ run' = run + 1
    /\ prev' = Append(prev, Summary)
    /\ pc' = "main_open"
    /\ fw_state' = 0
    /\ fw_ver' = NoVersion
    /\ pt_ver' = NoVersion
    /\ fw' = NoBlob
    /\ count' = 0
    /\ sent' = 0
    /\ rets' = NoRets
    /\ log' = << >>
    /\ hdl' = NoHandle
    /\ heap' = NoHeap
    /\ UNCHANGED <<is_3012, devState, devVer, fs>>

----------------------------------------------------------------------------

\* one step of an invocation
Step ==
    \/ MainOpen
    \/ MainGetState
    \/ MainGetVersion
    \/ LegacyRead
    \/ FwDnload
    \/ FwBulk
    \/ PatchGetState
    \/ PatchGetVersion
    \/ PatchRead
    \/ SyscfgGetState
    \/ SyscfgGetVersion
    \/ SyscfgRead
    \/ NormalGetState
    \/ NormalSetMode
    \/ SwitchPid

Next == Step \/ Rerun

Spec == Init /\ [][Next]_vars

\* one invocation, which goes on as long as it has a step to take: every
\* libusb call returns or times out, and the file reads return
LiveSpec == Init /\ [][Step]_vars /\ WF_vars(Step)

TypeOK ==
    /\ pc \in {"main_open", "main_getstate", "main_getversion", "L_read", "fw_dnload",
               "fw_bulk", "P_getstate", "P_getversion", "P_read",
               "S_getstate", "S_getversion", "S_read", "N_getstate",
               "N_setmode", "switch_pid", "exit"}
    /\ run \in 1..MaxRuns
    /\ devState \in 0..255
    /\ count >= 0 /\ sent >= 0

----------------------------------------------------------------------------
(* Vocabulary of the properties *)

\* the entries of the log that carry bytes of a blob
IsUpload(e) == e.op \in {"DNLOAD", "BULK"}

\* the upload transfers of a stage, in the order of emission
Uploads(stage) == SelectSeq(log, LAMBDA e : IsUpload(e) /\ e.stage = stage)

\* the successful reads of a blob by a stage
Reads(stage) == { i \in StageOps(log, stage, "OPEN") : log[i].ret > 0 }

\* a function of this invocation has returned v
Returned(f, v) == f \in DOMAIN rets /\ rets[f] = v
ReturnedError(f) == f \in DOMAIN rets /\ rets[f] < 0

\* the mode field and the patch flag of a state byte
ModeOf(st) == st % 64
PatchFlag(st) == (st \div 128) % 2 = 1

\* what the device reports
DevRom == LE32(devVer[1])
DevBuild == LE32(devVer[2])

\* ceil(a / b)
CeilDiv(a, b) == (a + b - 1) \div b

\* a stage's query of the given kind came back whole
QueryOk(stage, op) == \E i \in StageOps(log, stage, op) : Succeeded(log[i])

Stages == {"P", "S", "L"}

----------------------------------------------------------------------------
(* C1: an upload whose transfers all succeed emits one DNLOAD control       *)
(* transfer with the first min(len, HDR_SIZE) bytes and then                *)
(* ceil((len - header) / BULK_SIZE) bulk transfers on endpoint 2, each of   *)
(* at most BULK_SIZE bytes, that cover the rest of the blob in order with   *)
(* no gap and no overlap.                                                   *)
C1_UploadShape ==
    \A st \in Stages :
      (Returned(st, 0) /\ Reads(st) # {}) =>
        LET L == log[CHOOSE i \in Reads(st) : TRUE].ret
            h == IF L < 20 THEN L ELSE 20
            u == Uploads(st)
        IN /\ Len(u) = 1 + CeilDiv(L - h, 4096)
           /\ u[1].op = "DNLOAD" /\ u[1].ep = 0
           /\ u[1].off = 0 /\ u[1].len = h
           /\ \A k \in 2..Len(u) :
                /\ u[k].op = "BULK" /\ u[k].ep = 2
                /\ u[k].len >= 1 /\ u[k].len <= 4096
                /\ u[k].off = u[k-1].off + u[k-1].len
           /\ u[Len(u)].off + u[Len(u)].len = L
           /\ (L <= 20 => Len(u) = 1)

\* a legacy upload of a blob of header plus two full chunks plus one byte
\* has gone through
C1_Witness ==
    /\ pc = "exit"
    /\ Returned("L", 0)
    /\ Len(Uploads("L")) = 4
    /\ Uploads("L")[4].len = 1

----------------------------------------------------------------------------
(* C2: once stage P has read the patch file, having seen PATCH_UPDATE clear *)
(* and having got the device's version, the patch upload is started exactly *)
(* when the patch's rom version equals the device's and the patch's build   *)
(* version is greater than the device's; otherwise the stage returns an     *)
(* error and no DNLOAD is emitted.                                          *)
C2_Started ==
    \/ pc \in {"fw_dnload", "fw_bulk"} /\ fw.stage = "P"
    \/ StageOps(log, "P", "DNLOAD") # {}

C2_PatchAcceptance ==
    (Reads("P") # {} /\ QueryOk("P", "GETVERSION")) =>
        IF pt_ver.rom_version = DevRom /\ pt_ver.build_version > DevBuild
        THEN C2_Started
        ELSE /\ ~C2_Started
             /\ StageOps(log, "P", "BULK") = {}
             /\ ReturnedError("P")

\* a patch of the device's own build has been turned down
C2_Witness ==
    /\ Reads("P") # {} /\ QueryOk("P", "GETVERSION") /\ QueryOk("P", "GETSTATE")
    /\ pt_ver.rom_version = DevRom
    /\ pt_ver.build_version = DevBuild
    /\ ReturnedError("P")

----------------------------------------------------------------------------
(* C3: when stage P's GETSTATE returns a byte with PATCH_UPDATE set, the    *)
(* stage returns 0 with no GETVERSION, no read of a patch file and no       *)
(* DNLOAD or bulk transfer of its own, and stage S is next.                 *)
C3_PatchSkipped ==
    \A i \in StageOps(log, "P", "GETSTATE") :
      (log[i].ret = 1 /\ PatchFlag(log[i].val)) =>
        /\ Returned("P", 0)
        /\ \A j \in 1..Len(log) :
             log[j].stage = "P" => j = i
        /\ \/ pc = "S_getstate" /\ Len(log) = i
           \/ Len(log) > i /\ log[i+1].stage = "S" /\ log[i+1].op = "GETSTATE"

\* stage P has just been skipped on a device that holds its patch
C3_Witness ==
    /\ pc = "S_getstate"
    /\ Returned("P", 0)
    /\ \E i \in StageOps(log, "P", "GETSTATE") :
         log[i].ret = 1 /\ PatchFlag(log[i].val) /\ log[i].val = devState
    /\ PatchName(ROM_A) \in DOMAIN fs

----------------------------------------------------------------------------
(* C4 as stated: no DNLOAD and no bulk transfer is issued while the         *)
(* device's state byte reports NORMAL_MODE.                                 *)
C4_NoUploadInNormal ==
    \A i \in 1..Len(log) :
      IsUpload(log[i]) => ModeOf(log[i].dev) # 14

(* C4, amended: the one step held back by NORMAL_MODE is SET_NORMAL_MODE.   *)
(* It comes right after stage N's GETSTATE and only when the byte that      *)
(* query left in fw_state does not report NORMAL_MODE; when the query       *)
(* returned the device's byte, the device is not in normal mode then.  The  *)
(* uploads are issued whatever the mode.                                    *)
C4_NoSetModeInNormal ==
    \A j \in Ops(log, "SET_NORMAL_MODE") :
      /\ j > 1
      /\ log[j-1].op = "GETSTATE" /\ log[j-1].stage = "N"
      /\ ModeOf(log[j-1].val) # 14
      /\ log[j-1].ret = 1 => ModeOf(log[j].dev) # 14

\* a device in normal mode has been sent a blob, stage N has read its state
\* and gone on to SWITCH_VID_PID without SET_NORMAL_MODE
C4_Witness ==
    /\ \E i \in 1..Len(log) : IsUpload(log[i]) /\ ModeOf(log[i].dev) = 14
    /\ QueryOk("N", "GETSTATE")
    /\ ModeOf(devState) = 14
    /\ Ops(log, "SET_NORMAL_MODE") = {}
    /\ pc = "switch_pid"

----------------------------------------------------------------------------
(* C5: the whole AR3012 sequence run twice, every transfer succeeding.      *)

\* this invocation follows one that ran the whole sequence, and has itself
\* run the whole sequence
C5_SecondFullRun ==
    /\ run >= 2
    /\ prev[run - 1].full
    /\ pc = "exit"
    /\ Ops(log, "SWITCH_VID_PID") # {}
    /\ Clean(log)

(* C5 as stated: the device ends in normal mode and the second run issues   *)
(* no DNLOAD at all.                                                        *)
C5_NoDnloadAtAll ==
    C5_SecondFullRun =>
        /\ ModeOf(devState) = 14
        /\ Ops(log, "DNLOAD") = {}

(* C5, amended: the device ends in normal mode and the second run issues no *)
(* DNLOAD for the patch; it uploads the syscfg blob again, with one DNLOAD. *)
C5_NoPatchDnload ==
    C5_SecondFullRun =>
        /\ ModeOf(devState) = 14
        /\ PatchFlag(devState)
        /\ StageOps(log, "P", "DNLOAD") = {}
        /\ StageOps(log, "P", "OPEN") = {}
        /\ Cardinality(StageOps(log, "S", "DNLOAD")) = 1
        /\ Ops(log, "SET_NORMAL_MODE") = {}

\* the second whole run has ended, the first one having uploaded the patch
C5_Witness ==
    /\ C5_SecondFullRun
    /\ run = 2
    /\ StageOps(log, "S", "DNLOAD") # {}
    /\ PatchName(ROM_A) \in DOMAIN fs

----------------------------------------------------------------------------
(* C6: a GETSTATE or GETVERSION of stage P, S or N that fails or comes back *)
(* short is the last transfer of the run, and the run returns an error.     *)
C6_QueryFailureAborts ==
    \A i \in 1..Len(log) :
      ( /\ log[i].stage \in {"P", "S", "N"}
        /\ log[i].op \in {"GETSTATE", "GETVERSION"}
        /\ ~Succeeded(log[i]) ) =>
          /\ i = Len(log)
          /\ pc = "exit"
          /\ ReturnedError("init")

----------------------------------------------------------------------------
(* C7: a SET_NORMAL_MODE that fails makes stage N return an error, keeps    *)
(* SWITCH_VID_PID from being issued and makes the run return an error.      *)
C7_SetModeFailureAborts ==
    \A i \in Ops(log, "SET_NORMAL_MODE") :
      log[i].ret # 0 =>
          /\ Ops(log, "SWITCH_VID_PID") = {}
          /\ pc = "exit"
          /\ ReturnedError("N")
          /\ ReturnedError("init")

----------------------------------------------------------------------------
(* C8: a DNLOAD or bulk transfer that fails or is short is the last entry   *)
(* of the run's log: the upload returns -1 there, no further chunk goes     *)
(* out, and an AR3012 run ends with that error without another stage.       *)
C8_UploadFailureAborts ==
    \A i \in 1..Len(log) :
      (IsUpload(log[i]) /\ ~Succeeded(log[i])) =>
          /\ i = Len(log)
          /\ Returned(log[i].stage, -1)
          /\ pc = "exit"
          /\ is_3012 => Returned("init", -1)

\* the second bulk transfer of a patch came back short
C8_Witness ==
    /\ is_3012
    /\ \E i \in StageOps(log, "P", "BULK") :
         /\ log[i].off = 20 + 4096
         /\ log[i].ret = 0
         /\ log[i].r < log[i].len
    /\ pc = "exit"

----------------------------------------------------------------------------
(* C9: when stage P turns the patch down after reading it, the run ends     *)
(* with an error; the read of the patch is the last entry of the log, so    *)
(* there is no DNLOAD, no step of stage S or N and no SWITCH_VID_PID.       *)
C9_Rejected ==
    /\ Reads("P") # {}
    /\ ReturnedError("P")
    /\ StageOps(log, "P", "DNLOAD") = {}

C9_MismatchEndsRun ==
    C9_Rejected =>
        /\ pc = "exit"
        /\ ReturnedError("init")
        /\ Ops(log, "DNLOAD") = {}
        /\ \A i \in 1..Len(log) : log[i].stage \in {"main", "P"}
        /\ log[Len(log)].op = "OPEN"
        /\ Cardinality(Ops(log, "GETSTATE")) = 2
        /\ Cardinality(Ops(log, "GETVERSION")) = 2

\* a patch for another rom version has been turned down
C9_Witness ==
    /\ C9_Rejected
    /\ QueryOk("P", "GETVERSION")
    /\ pt_ver.rom_version # DevRom
    /\ pt_ver.build_version > DevBuild

----------------------------------------------------------------------------
(* C10: in stage N, when GETSTATE returns a byte whose mode is NORMAL_MODE, *)
(* SET_NORMAL_MODE is not issued and SWITCH_VID_PID is issued once;         *)
(* otherwise SET_NORMAL_MODE is issued once and, when it succeeds,          *)
(* SWITCH_VID_PID is issued once, after it.                                 *)
C10_StageN ==
    \A i \in StageOps(log, "N", "GETSTATE") :
      log[i].ret = 1 =>
        LET sets == Ops(log, "SET_NORMAL_MODE")
            sws == Ops(log, "SWITCH_VID_PID")
        IN /\ Cardinality(sets) <= 1 /\ Cardinality(sws) <= 1
           /\ \A j \in sets \cup sws : j > i
           /\ IF ModeOf(log[i].val) = 14
              THEN /\ sets = {}
                   /\ pc = "exit" => Cardinality(sws) = 1
                   /\ pc # "exit" => pc = "switch_pid"
              ELSE /\ pc = "N_setmode" => sets = {}
                   /\ pc # "N_setmode" => Cardinality(sets) = 1
                   /\ \A j \in sets : log[j].ret = 0 =>
                        /\ pc = "exit" => Cardinality(sws) = 1
                        /\ pc # "exit" => pc = "switch_pid"
                        /\ \A k \in sws : k > j

\* stage N found the device in normal mode and the run ended with
\* SWITCH_VID_PID alone
C10_Witness ==
    /\ pc = "exit"
    /\ \E i \in StageOps(log, "N", "GETSTATE") :
         log[i].ret = 1 /\ ModeOf(log[i].val) = 14
    /\ Ops(log, "SET_NORMAL_MODE") = {}
    /\ Cardinality(Ops(log, "SWITCH_VID_PID")) = 1

----------------------------------------------------------------------------
(* Vocabulary of the AR3012 sequence *)

\* the transfers that write to the device
IsWrite(e) == e.op \in {"DNLOAD", "BULK", "SET_NORMAL_MODE", "SWITCH_VID_PID"}

Writes == SelectSeq(log, IsWrite)

\* the place of a write transfer in the AR3012 sequence
Rank(e) ==
    CASE IsUpload(e) /\ e.stage = "P" -> 1
      [] IsUpload(e) /\ e.stage = "S" -> 2
      [] e.op = "SET_NORMAL_MODE" -> 3
      [] e.op = "SWITCH_VID_PID" -> 4
      [] OTHER -> 0

\* every byte of the blob the stage has read has been sent and taken
UploadComplete(st) ==
    /\ Reads(st) # {}
    /\ Uploads(st) # << >>
    /\ \A k \in 1..Len(Uploads(st)) : Succeeded(Uploads(st)[k])
    /\ LET u == Uploads(st)
       IN u[Len(u)].off + u[Len(u)].len = log[CHOOSE i \in Reads(st) : TRUE].ret

\* a stage has returned without an error
ReturnedOk(f) == f \in DOMAIN rets /\ rets[f] >= 0

----------------------------------------------------------------------------
(* C11: a failure of SWITCH_VID_PID is not fatal.  Whenever stages P and S  *)
(* and the SET_NORMAL_MODE step have returned without error and the run     *)
(* has ended, the AR3012 plan has returned 0 whatever SWITCH_VID_PID        *)
(* returned, and SWITCH_VID_PID was attempted exactly once, as the last     *)
(* transfer of the run.                                                     *)
C11_SwitchNotFatal ==
    (pc = "exit" /\ ReturnedOk("P") /\ ReturnedOk("S") /\ ReturnedOk("N")) =>
        /\ Returned("init", 0)
        /\ Cardinality(Ops(log, "SWITCH_VID_PID")) = 1
        /\ log[Len(log)].op = "SWITCH_VID_PID"

\* SWITCH_VID_PID got no answer after three good stages, and the plan has
\* returned 0
C11_Witness ==
    /\ pc = "exit"
    /\ ReturnedOk("P") /\ ReturnedOk("S") /\ ReturnedOk("N")
    /\ log[Len(log)].op = "SWITCH_VID_PID" /\ log[Len(log)].ret = -1
    /\ Returned("SW", 0)
    /\ Returned("init", 0)
    /\ Clean(SubSeq(log, 1, Len(log) - 1))

----------------------------------------------------------------------------
(* C12: the write transfers of an AR3012 run reach the device in one order: *)
(* the patch DNLOAD and then the patch's bulk chunks, the syscfg DNLOAD and *)
(* then the syscfg's bulk chunks, SET_NORMAL_MODE, SWITCH_VID_PID.  No      *)
(* SET_NORMAL_MODE and no SWITCH_VID_PID comes before the syscfg upload is  *)
(* complete, nothing follows SWITCH_VID_PID, and in a run that returns 0    *)
(* with every transfer succeeding the patch upload is there exactly when    *)
(* PATCH_UPDATE was clear and SET_NORMAL_MODE exactly when the device was   *)
(* not in normal mode.                                                      *)
C12_WriteOrder ==
    /\ \A i \in 1..Len(Writes), j \in 1..Len(Writes) :
         i < j => /\ Rank(Writes[i]) <= Rank(Writes[j])
                  /\ Rank(Writes[i]) >= 3 => Rank(Writes[i]) < Rank(Writes[j])
    /\ \A st \in {"P", "S"} : \A k \in 1..Len(Uploads(st)) :
         (Uploads(st)[k].op = "DNLOAD") <=> (k = 1)
    /\ \A i \in Ops(log, "SET_NORMAL_MODE") \cup Ops(log, "SWITCH_VID_PID") :
         /\ is_3012
         /\ UploadComplete("S") /\ Returned("S", 0)
         /\ Uploads("P") # << >> => UploadComplete("P")
    /\ \A i \in Ops(log, "SWITCH_VID_PID") : i = Len(log) /\ pc = "exit"
    /\ (is_3012 /\ pc = "exit" /\ Returned("init", 0)) =>
         /\ Cardinality(Ops(log, "SWITCH_VID_PID")) = 1
         /\ UploadComplete("S")
         /\ Clean(log) =>
              /\ \A i \in StageOps(log, "P", "GETSTATE") :
                   (Uploads("P") # << >>) <=> ~PatchFlag(log[i].dev)
              /\ \A i \in StageOps(log, "N", "GETSTATE") :
                   (Ops(log, "SET_NORMAL_MODE") # {}) <=> ModeOf(log[i].dev) # 14

\* a run in which every transfer succeeded has sent the patch, the syscfg,
\* SET_NORMAL_MODE and SWITCH_VID_PID
C12_Witness ==
    /\ pc = "exit" /\ Returned("init", 0) /\ Clean(log)
    /\ Len(Uploads("P")) >= 2 /\ Len(Uploads("S")) >= 2
    /\ LET n == Len(Writes)
       IN /\ Writes[n].op = "SWITCH_VID_PID"
          /\ Writes[n-1].op = "SET_NORMAL_MODE"
          /\ Writes[n-2].op = "BULK" /\ Writes[n-2].stage = "S"
          /\ Writes[1].op = "DNLOAD" /\ Writes[1].stage = "P"

----------------------------------------------------------------------------
(* C13: no transfer is retried.  Within one run a stage reads at most one   *)
(* blob, the upload transfers of a blob carry strictly increasing offsets   *)
(* (no chunk is sent twice), a failed or short upload transfer is the last  *)
(* transfer of its blob, and SET_NORMAL_MODE and SWITCH_VID_PID are each    *)
(* submitted at most once.                                                  *)
C13_NoRetry ==
    /\ \A st \in Stages :
         /\ Cardinality(StageOps(log, st, "OPEN")) <= 1
         /\ \A i \in 1..Len(Uploads(st)), j \in 1..Len(Uploads(st)) :
              i < j => /\ Uploads(st)[i].off < Uploads(st)[j].off
                       /\ Succeeded(Uploads(st)[i])
    /\ Cardinality(Ops(log, "SET_NORMAL_MODE")) <= 1
    /\ Cardinality(Ops(log, "SWITCH_VID_PID")) <= 1

\* a bulk transfer of the syscfg came back short after a good one, and the
\* run has ended with nothing more of that blob sent
C13_Witness ==
    /\ pc = "exit"
    /\ LET u == Uploads("S")
       IN /\ Len(u) = 3
          /\ Succeeded(u[2])
          /\ u[3].op = "BULK" /\ u[3].ret = 0 /\ u[3].r < u[3].len

----------------------------------------------------------------------------
(* C14: the exit status reflects the outcome of the run.  It is 0 only when *)
(* the selected plan ran and succeeded, and it is 1 when a read or an       *)
(* upload of the plan failed or a stage of the AR3012 plan returned an      *)
(* error.                                                                   *)
C14_PlanFailed ==
    \/ \E i \in 1..Len(log) :
         log[i].op \in {"OPEN", "DNLOAD", "BULK"} /\ ~Succeeded(log[i])
    \/ \E st \in {"P", "S", "N"} : ReturnedError(st)

C14_ExitStatus ==
    pc = "exit" =>
        /\ rets["main"] \in {0, 1}
        /\ rets["main"] = 0 => ("init" \in DOMAIN rets /\ ~C14_PlanFailed)
        /\ ("init" \in DOMAIN rets /\ C14_PlanFailed) => rets["main"] = 1

----------------------------------------------------------------------------
(* Reading a file name back *)

HexDigitSet == { HexDigits[k] : k \in 1..16 }

RECURSIVE HexValue(_)
HexValue(ds) ==
    IF ds = << >>
    THEN 0
    ELSE 16 * HexValue(SubSeq(ds, 1, Len(ds) - 1))
         + (CHOOSE k \in 0..15 : HexDigits[k + 1] = ds[Len(ds)])

----------------------------------------------------------------------------
(* C15: the file stage S asks for is                                        *)
(* <fw_path>/ar3k/ramps_0x<rom_version in 8 hex digits>_<id>.dfu, where id  *)
(* is 26, 40 or 19 for the 26 MHz, 40 MHz and 19.2 MHz codes of the         *)
(* ref_clock the stage got from GETVERSION and 0 for every other value;     *)
(* and the upload of the file starts right after a successful read,         *)
(* whatever its last bytes are.                                             *)
C15_ClockDigits(code) ==
    CASE code = ATH3K_XTAL_FREQ_26M -> << "2", "6" >>
      [] code = ATH3K_XTAL_FREQ_40M -> << "4", "0" >>
      [] code = ATH3K_XTAL_FREQ_19P2 -> << "1", "9" >>
      [] OTHER -> << "0" >>

C15_SyscfgFileName ==
    \A i \in StageOps(log, "S", "OPEN") :
      /\ i > 1
      /\ log[i-1].op = "GETVERSION" /\ log[i-1].stage = "S"
      /\ log[i-1].ret = VERSION_SIZE => log[i-1].val = LE32(devVer[4])
      /\ LET nm == log[i].name
             rom == SubSeq(nm, 3, 10)
         IN /\ nm = << "fw_path", "/ar3k/ramps_0x" >> \o rom \o << "_" >>
                       \o C15_ClockDigits(log[i-1].val) \o << ".dfu" >>
            /\ Len(rom) = 8
            /\ \A k \in 1..8 : rom[k] \in HexDigitSet
            /\ HexValue(rom) = fw_ver.rom_version
            /\ fw_ver.rom_version = 768 =>
                 rom = << "0", "0", "0", "0", "0", "3", "0", "0" >>
            /\ log[i-1].val \notin {0, 1, 2} =>
                 SubSeq(nm, 11, Len(nm)) = << "_", "0", ".dfu" >>
      /\ log[i].ret > 0 =>
           \/ i = Len(log) /\ pc = "fw_dnload" /\ fw.stage = "S"
           \/ i < Len(log) /\ log[i+1].op = "DNLOAD" /\ log[i+1].stage = "S"

\* a device that reports a clock code of 7 has been sent ramps_0x00000300_0.dfu,
\* a file whose last bytes name another rom version
C15_Witness ==
    /\ LE32(devVer[4]) = 7
    /\ \E i \in StageOps(log, "S", "OPEN") :
         /\ log[i-1].ret = VERSION_SIZE
         /\ log[i].ret = 12
         /\ log[i].name = << "fw_path", "/ar3k/ramps_0x", "0", "0", "0", "0", "0",
                             "3", "0", "0", "_", "0", ".dfu" >>
         /\ fs[log[i].name].tail = Trailer(ROM_B, 0)
    /\ Returned("S", 0)

----------------------------------------------------------------------------
(* C16: every transfer is issued while the handle is open and holds a claim *)
(* on interface 0.                                                          *)
C16_TransferPcs ==
    {"main_getstate", "main_getversion", "fw_dnload", "fw_bulk", "P_getstate",
     "P_getversion", "S_getstate", "S_getversion", "N_getstate", "N_setmode",
     "switch_pid"}

C16_TransfersUnderClaim ==
    pc \in C16_TransferPcs => (hdl.open /\ 0 \in hdl.claimed)

----------------------------------------------------------------------------
(* C17: stage P takes the trailer only from a blob of at least 8 bytes.  A  *)
(* patch file of 1 to 7 bytes is turned down by the read: the trailer is    *)
(* not parsed, no DNLOAD is issued, and the stage returns an error.         *)
C17_ShortPatchRejected ==
    /\ \A i \in StageOps(log, "P", "OPEN") :
         ( /\ log[i].name \in DOMAIN fs
           /\ fs[log[i].name].len \in 1..7 ) =>
             /\ log[i].ret <= 0
             /\ pt_ver = NoVersion
             /\ StageOps(log, "P", "DNLOAD") = {}
             /\ ReturnedError("P")
             /\ i = Len(log) /\ pc = "exit"
    /\ pt_ver # NoVersion =>
         \E i \in Reads("P") : log[i].ret >= 8 /\ fs[log[i].name].len = log[i].ret

\* the patch file on disk is 4 bytes long and stage P has given up on it
C17_Witness ==
    /\ pc = "exit"
    /\ \E i \in StageOps(log, "P", "OPEN") :
         /\ log[i].name \in DOMAIN fs
         /\ fs[log[i].name].len = 4
         /\ log[i].ret = 0
    /\ QueryOk("P", "GETSTATE") /\ QueryOk("P", "GETVERSION")
    /\ ReturnedError("P")

----------------------------------------------------------------------------
(* C18: a blob is released exactly once on every path after a successful    *)
(* read (upload done, upload failed, version mismatch) before the stage     *)
(* returns, is never released when the read failed, and is held, not yet    *)
(* released, whenever a transfer of it is issued.                           *)
C18_BlobReleasedOnce ==
    \A st \in BlobStages :
      /\ heap[st].frees <= 1
      /\ heap[st].held => (Reads(st) # {} /\ heap[st].frees = 0)
      /\ (st \in DOMAIN rets \/ pc = "exit") =>
           /\ ~heap[st].held
           /\ heap[st].frees = (IF Reads(st) # {} THEN 1 ELSE 0)
      /\ (pc \in {"fw_dnload", "fw_bulk"} /\ fw.stage = st) =>
           (heap[st].held /\ heap[st].frees = 0)
      /\ Uploads(st) # << >> => Reads(st) # {}

\* a patch of the wrong version has been read and let go without an upload
C18_Witness ==
    /\ Reads("P") # {}
    /\ Uploads("P") = << >>
    /\ ReturnedError("P")
    /\ heap["P"].frees = 1 /\ ~heap["P"].held

----------------------------------------------------------------------------
(* C19: when main()'s own GETSTATE or GETVERSION fails or comes back short, *)
(* the process exits with status 1 and no plan is started: no file is read  *)
(* and no DNLOAD, bulk, SET_NORMAL_MODE or SWITCH_VID_PID is issued.        *)
C19_InitialQueryFailure ==
    \A i \in 1..Len(log) :
      ( /\ log[i].stage = "main"
        /\ log[i].op \in {"GETSTATE", "GETVERSION"}
        /\ ~Succeeded(log[i]) ) =>
          /\ i = Len(log)
          /\ pc = "exit"
          /\ Returned("main", 1)
          /\ "init" \notin DOMAIN rets
          /\ \A j \in 1..Len(log) :
               log[j].stage = "main" /\ log[j].op \in {"GETSTATE", "GETVERSION"}

\* main()'s GETVERSION came back with half a version record
C19_Witness ==
    /\ pc = "exit"
    /\ Len(log) = 2
    /\ log[1].op = "GETSTATE" /\ log[1].ret = 1
    /\ log[2].op = "GETVERSION" /\ log[2].stage = "main" /\ log[2].ret = 8
    /\ Returned("main", 1)

----------------------------------------------------------------------------
(* C20: every upload of a blob of L >= 1 bytes takes at most                *)
(* 1 + ceil((L - min(L, HDR_SIZE)) / BULK_SIZE) transfers: the bytes left   *)
(* to send go down by the chunk size with every bulk transfer that          *)
(* succeeds and reach 0; and every run, legacy or AR3012, ends.             *)
C20_UploadBound ==
    /\ \A st \in Stages :
         Reads(st) # {} =>
           LET L == log[CHOOSE i \in Reads(st) : TRUE].ret
               h == IF L < 20 THEN L ELSE 20
               u == Uploads(st)
           IN /\ L >= 1
              /\ Len(u) <= 1 + CeilDiv(L - h, 4096)
              /\ \A k \in 2..Len(u) :
                   /\ u[k].len >= 1
                   /\ L - u[k].off < L - u[k-1].off
                   /\ L - u[k].off - u[k].len >= 0
              /\ Returned(st, 0) => u[Len(u)].off + u[Len(u)].len = L
    /\ pc \in {"fw_dnload", "fw_bulk"} =>
         /\ count + sent = fw.len
         /\ count >= 1
         /\ pc = "fw_bulk" => count < fw.len

C20_Termination == [] C20_UploadBound /\ <>(pc = "exit")

\* an upload of a header, a full chunk and nine bytes has ended after its
\* third transfer, and so has the run
C20_Witness ==
    /\ pc = "exit"
    /\ Returned("P", 0)
    /\ Len(Uploads("P")) = 3
    /\ Uploads("P")[3].off + Uploads("P")[3].len = FW_HDR_SIZE + BULK_SIZE + 9

====
